---- MODULE Spec2Model ----
(***************************************************************************)
(* Quota tracker (backend/rate_limiter.py) and request orchestrator        *)
(* (backend/catalyst_ai.py) of The Catalyst backend.                       *)
(*                                                                         *)
(* Time is counted in milliseconds: time.monotonic() is the variable now,  *)
(* and every duration of the source (seconds, as floats) is its value in   *)
(* milliseconds.  asyncio runs the tasks on one event loop: a task runs    *)
(* without interruption from one suspension to the next, and it suspends   *)
(* only in asyncio.sleep and in asyncio.to_thread (the provider call); an  *)
(* uncontended asyncio.Lock is taken without suspending, and no lock of    *)
(* the tracker is held across a suspension.  Each action below is one such *)
(* uninterrupted run.                                                      *)
(***************************************************************************)
EXTENDS Integers, Sequences, FiniteSets, TLC

\* ------------------------------------------------------------ constants

TOKEN_WINDOW_SECONDS == 60000

DAY_WINDOW_SECONDS == 86400000

MAX_RETRIES == 4

BASE_DELAY == 1000

MAX_DELAY == 60000

\* JITTER_RANGE = 0.1, in thousandths
JITTER_RANGE == 100

\* the floor max(0.1, ...) of _calculate_retry_delay
MIN_RETRY_DELAY == 100

\* the fallback sleep 0.05 of the tracker's recheck loops
POLL_SLEEP == 50

\* the follow-up rounds of the tool-calling loop, range(3)
MAX_TOOL_ROUNDS == 3

MODEL_NAME == "pro"

ALT_MODEL_NAME == "flash"

Models == {MODEL_NAME, ALT_MODEL_NAME}

\* ------------------------------------------------------------ bounds

\* how many times the clock advances in one behaviour
MaxTicks == 3

\* how many top-level calls are started in one behaviour
MaxCalls == 2

\* how many calls the tracker's own callers start in one behaviour
MaxDirectCalls == 3

\* the largest attempt number _calculate_retry_delay is applied to
MaxAttempt == 7

\* random.uniform(-JITTER_RANGE, JITTER_RANGE) where the delay alone is computed
DelayJitterChoices == {-100, -50, 0, 50, 100}

Procs == {"t1", "t2"}

\* the tasks that serve chat requests (generate_catalyst_response) and the tasks
\* that run the memory synthesis (update_ltm_memory)
ChatProcs == {"t1"}

MemoryProcs == {"t2"}

\* the clock's free steps (the clock also jumps to the next wake-up time)
TickSteps == {30000}

\* estimated prompt tokens of a reservation made by a caller of the tracker
EstChoices == {0, 1, 3}

\* estimated prompt tokens of a prompt (estimate_tokens of a text that is not empty)
PromptChoices == {3}

\* actual tokens of a commit
TokChoices == {3}

\* random.uniform(-JITTER_RANGE, JITTER_RANGE), in thousandths
JitterChoices == {100}

\* ------------------------------------------------------------ helpers

Max(a, b) == IF a >= b THEN a ELSE b

Min(a, b) == IF a <= b THEN a ELSE b

RECURSIVE SumSeq(_)
SumSeq(q) == IF q = <<>> THEN 0 ELSE Head(q) + SumSeq(Tail(q))

RECURSIVE SumCounts(_)
SumCounts(q) == IF q = <<>> THEN 0 ELSE Head(q)[2] + SumCounts(Tail(q))

\* ------------------------------------------------------------ limits

Limit(present, rpm, tpm, rpd) ==
    [present |-> present, rpm |-> rpm, tpm |-> tpm, rpd |-> rpd]

\* GEMINI_RATE_LIMITS: the configurations the application runs with
LimitChoices ==
    { [m \in Models |-> Limit(TRUE, 1, 0, 0)],
      [m \in Models |-> Limit(TRUE, 2, 4, 0)] }

\* the configurations the tracker alone is exercised with
TrackerLimitChoices ==
    { [m \in Models |-> IF m = MODEL_NAME THEN Limit(TRUE, 2, 0, 0)
                                          ELSE Limit(TRUE, 0, 4, 0)],
      [m \in Models |-> IF m = MODEL_NAME THEN Limit(TRUE, 1, 4, 2)
                                          ELSE Limit(TRUE, 1, 0, 0)],
      \* one model that the limits map does not hold (or holds with an empty
      \* dict) and one whose ceilings are all zero
      [m \in Models |-> IF m = MODEL_NAME THEN Limit(FALSE, 0, 0, 0)
                                          ELSE Limit(TRUE, 0, 0, 0)] }

\* MODEL_NAME set to a model GEMINI_RATE_LIMITS has no entry for, next to a
\* configuration that lists both models
UnlistedLimitChoices ==
    { [m \in Models |-> IF m = MODEL_NAME THEN Limit(FALSE, 0, 0, 0)
                                          ELSE Limit(TRUE, 1, 0, 0)],
      [m \in Models |-> Limit(TRUE, 2, 4, 0)] }

\* token ceilings below the largest estimate and the largest usage (3)
OversizeLimitChoices ==
    { [m \in Models |-> Limit(TRUE, 0, 2, 0)],
      [m \in Models |-> IF m = MODEL_NAME THEN Limit(TRUE, 2, 2, 0)
                                          ELSE Limit(TRUE, 0, 1, 0)] }

\* ------------------------------------------------------------ _ModelState

\* _ModelState(), as _get_state puts it into _states
EmptyState ==
    [created |-> TRUE,
     minute_requests |-> <<>>, day_requests |-> <<>>, token_events |-> <<>>,
     token_sum |-> 0, placeholder_tokens |-> <<>>, pending_token_sum |-> 0]

\* a model that has no entry in _states
NoState == [EmptyState EXCEPT !.created = FALSE]

\* _get_state: the model's state, created if _states has none
GetState(s) == IF s.created THEN s ELSE EmptyState

\* DropExpired that keeps a timestamp of exactly one window ago
RECURSIVE DropExpiredLate(_, _, _)
DropExpiredLate(q, t, window) ==
    IF q # <<>> /\ t - Head(q) > window
    THEN DropExpiredLate(Tail(q), t, window)
    ELSE q

RECURSIVE DropExpired(_, _, _)
DropExpired(q, t, window) ==
    IF q # <<>> /\ t - Head(q) >= window
    THEN DropExpired(Tail(q), t, window)
    ELSE q

PruneRequests(s, t) ==
    [s EXCEPT !.minute_requests = DropExpired(@, t, TOKEN_WINDOW_SECONDS),
              !.day_requests = DropExpired(@, t, DAY_WINDOW_SECONDS)]

\* PruneTokens that drops the expired events and leaves token_sum as it is
RECURSIVE PruneTokensKeepsSum(_, _)
PruneTokensKeepsSum(s, t) ==
    IF s.token_events # <<>> /\ t - Head(s.token_events)[1] >= TOKEN_WINDOW_SECONDS
    THEN PruneTokensKeepsSum([s EXCEPT !.token_events = Tail(@)], t)
    ELSE s

RECURSIVE PruneTokens(_, _)
PruneTokens(s, t) ==
    IF s.token_events # <<>> /\ t - Head(s.token_events)[1] >= TOKEN_WINDOW_SECONDS
    THEN PruneTokens([s EXCEPT !.token_events = Tail(@),
                               !.token_sum = Max(0, @ - Head(s.token_events)[2])], t)
    ELSE s

\* RequestWait that takes a ceiling of 0 for a ceiling no request fits under
RequestWaitZeroIsCeiling(s, t, lim) ==
    LET w1 == IF Len(s.minute_requests) >= lim.rpm
              THEN IF s.minute_requests # <<>>
                   THEN Max(0, Head(s.minute_requests) + TOKEN_WINDOW_SECONDS - t)
                   ELSE TOKEN_WINDOW_SECONDS
              ELSE 0
    IN IF lim.rpd # 0 /\ Len(s.day_requests) >= lim.rpd
       THEN Max(w1, Head(s.day_requests) + DAY_WINDOW_SECONDS - t)
       ELSE w1

\* RequestWait with the comparison of the window's length off by one
RequestWaitOffByOne(s, t, lim) ==
    LET w1 == IF lim.rpm # 0 /\ Len(s.minute_requests) > lim.rpm
              THEN Max(0, Head(s.minute_requests) + TOKEN_WINDOW_SECONDS - t)
              ELSE 0
    IN IF lim.rpd # 0 /\ Len(s.day_requests) > lim.rpd
       THEN Max(w1, Head(s.day_requests) + DAY_WINDOW_SECONDS - t)
       ELSE w1

RequestWait(s, t, lim) ==
    LET w1 == IF lim.rpm # 0 /\ Len(s.minute_requests) >= lim.rpm
              THEN Max(0, Head(s.minute_requests) + TOKEN_WINDOW_SECONDS - t)
              ELSE 0
    IN IF lim.rpd # 0 /\ Len(s.day_requests) >= lim.rpd
       THEN Max(w1, Head(s.day_requests) + DAY_WINDOW_SECONDS - t)
       ELSE w1

\* TokenWait that leaves the pending reservations out of the sum
TokenWaitNoPending(s, t, lim, reserve) ==
    IF lim.tpm # 0 /\ s.token_sum + reserve > lim.tpm
    THEN IF s.token_events # <<>>
         THEN Max(0, Head(s.token_events)[1] + TOKEN_WINDOW_SECONDS - t)
         ELSE TOKEN_WINDOW_SECONDS
    ELSE 0

TokenWait(s, t, lim, reserve) ==
    IF lim.tpm # 0 /\ s.token_sum + s.pending_token_sum + reserve > lim.tpm
    THEN IF s.token_events # <<>>
         THEN Max(0, Head(s.token_events)[1] + TOKEN_WINDOW_SECONDS - t)
         ELSE TOKEN_WINDOW_SECONDS
    ELSE 0

ComputeWaitTime(s, t, lim, reserve) ==
    Max(RequestWait(s, t, lim), TokenWait(s, t, lim, reserve))

\* get_wait_time that leaves the estimate out
GetWaitTimeNoEstimate(S, lims, m, t, est) ==
    IF ~lims[m].present
    THEN [S |-> S, w |-> 0]
    ELSE LET s1 == PruneRequests(GetState(S[m]), t)
             s2 == IF lims[m].tpm # 0 THEN PruneTokens(s1, t) ELSE s1
         IN [S |-> [S EXCEPT ![m] = s2],
             w |-> ComputeWaitTime(s2, t, lims[m], 0)]

\* get_wait_time that counts its own call as a request
GetWaitTimeCountsItself(S, lims, m, t, est) ==
    IF ~lims[m].present
    THEN [S |-> S, w |-> 0]
    ELSE LET s1 == PruneRequests(GetState(S[m]), t)
             s2 == IF lims[m].tpm # 0 THEN PruneTokens(s1, t) ELSE s1
         IN [S |-> [S EXCEPT ![m] = [s2 EXCEPT !.minute_requests = Append(@, t)]],
             w |-> ComputeWaitTime(s2, t, lims[m], Max(0, est))]

\* get_wait_time: the state it leaves (it prunes) and the value it returns
GetWaitTime(S, lims, m, t, est) ==
    IF ~lims[m].present
    THEN [S |-> S, w |-> 0]
    ELSE LET s1 == PruneRequests(GetState(S[m]), t)
             s2 == IF lims[m].tpm # 0 THEN PruneTokens(s1, t) ELSE s1
         IN [S |-> [S EXCEPT ![m] = s2],
             w |-> ComputeWaitTime(s2, t, lims[m], Max(0, est))]

\* the sleep of a recheck loop: wait_time if wait_time > 0 else 0.05
SleepFor(w) == IF w > 0 THEN w ELSE POLL_SLEEP

\* Admit that leaves the day window alone
AdmitMinuteOnly(s, t, reserve) ==
    LET s1 == [s EXCEPT !.minute_requests = Append(@, t)]
    IN IF reserve # 0
       THEN [s1 EXCEPT !.placeholder_tokens = Append(@, reserve),
                       !.pending_token_sum = @ + reserve]
       ELSE s1

Admit(s, t, reserve) ==
    LET s1 == [s EXCEPT !.minute_requests = Append(@, t),
                        !.day_requests = Append(@, t)]
    IN IF reserve # 0
       THEN [s1 EXCEPT !.placeholder_tokens = Append(@, reserve),
                       !.pending_token_sum = @ + reserve]
       ELSE s1

\* WaitForRequestPass with one quota for all the models: the wait is the
\* longest over every model's state
WaitForRequestPassShared(S, lims, m, t, est) ==
    IF ~lims[m].present
    THEN [S |-> S, admitted |-> TRUE, sleep |-> 0]
    ELSE LET reserve == Max(0, est)
             s2 == PruneTokens(PruneRequests(GetState(S[m]), t), t)
             wOf(k) == IF k = m
                       THEN ComputeWaitTime(s2, t, lims[m], reserve)
                       ELSE ComputeWaitTime(
                                PruneTokens(PruneRequests(GetState(S[k]), t), t),
                                t, lims[m], reserve)
             w == CHOOSE x \in {wOf(k) : k \in DOMAIN S} :
                      \A k \in DOMAIN S : wOf(k) <= x
         IN IF w <= 0
            THEN [S |-> [S EXCEPT ![m] = Admit(s2, t, reserve)],
                  admitted |-> TRUE, sleep |-> 0]
            ELSE [S |-> [S EXCEPT ![m] = s2],
                  admitted |-> FALSE, sleep |-> SleepFor(w)]

\* one pass of wait_for_request's loop: admitted, or the time to sleep
WaitForRequestPass(S, lims, m, t, est) ==
    IF ~lims[m].present
    THEN [S |-> S, admitted |-> TRUE, sleep |-> 0]
    ELSE LET reserve == Max(0, est)
             s2 == PruneTokens(PruneRequests(GetState(S[m]), t), t)
             w == ComputeWaitTime(s2, t, lims[m], reserve)
         IN IF w <= 0
            THEN [S |-> [S EXCEPT ![m] = Admit(s2, t, reserve)],
                  admitted |-> TRUE, sleep |-> 0]
            ELSE [S |-> [S EXCEPT ![m] = s2],
                  admitted |-> FALSE, sleep |-> SleepFor(w)]

PopPlaceholder(s) ==
    IF s.placeholder_tokens # <<>>
    THEN [s EXCEPT !.placeholder_tokens = Tail(@),
                   !.pending_token_sum = Max(0, @ - Head(s.placeholder_tokens))]
    ELSE s

\* record_usage whose release (0 tokens) leaves the placeholders alone
RecordUsagePassKeepsOnRelease(S, lims, m, t, tokens_used) ==
    IF ~lims[m].present
    THEN [S |-> S, recorded |-> TRUE, sleep |-> 0]
    ELSE LET tokens == Max(0, tokens_used)
             s1 == PruneTokens(GetState(S[m]), t)
             s2 == IF tokens = 0 THEN s1 ELSE PopPlaceholder(s1)
         IN [S |-> [S EXCEPT ![m] =
                        IF tokens # 0
                        THEN [s2 EXCEPT !.token_events = Append(@, <<t, tokens>>),
                                        !.token_sum = @ + tokens]
                        ELSE s2],
             recorded |-> TRUE, sleep |-> 0]

\* record_usage that appends the usage without looking at the token ceiling
RecordUsagePassNoCeiling(S, lims, m, t, tokens_used) ==
    IF ~lims[m].present
    THEN [S |-> S, recorded |-> TRUE, sleep |-> 0]
    ELSE LET tokens == Max(0, tokens_used)
             s2 == PopPlaceholder(PruneTokens(GetState(S[m]), t))
         IN [S |-> [S EXCEPT ![m] =
                        IF tokens # 0
                        THEN [s2 EXCEPT !.token_events = Append(@, <<t, tokens>>),
                                        !.token_sum = @ + tokens]
                        ELSE s2],
             recorded |-> TRUE, sleep |-> 0]

\* one pass of record_usage's loop: recorded, or the time to sleep
RecordUsagePass(S, lims, m, t, tokens_used) ==
    IF ~lims[m].present
    THEN [S |-> S, recorded |-> TRUE, sleep |-> 0]
    ELSE LET tokens == Max(0, tokens_used)
             tpm == lims[m].tpm
             s1 == PruneTokens(GetState(S[m]), t)
             s2 == PopPlaceholder(s1)
             reserved == IF s1.placeholder_tokens # <<>>
                         THEN Head(s1.placeholder_tokens) ELSE 0
             s3 == IF reserved # 0
                   THEN [s2 EXCEPT !.placeholder_tokens = <<reserved>> \o @,
                                   !.pending_token_sum = @ + reserved]
                   ELSE s2
         IN IF tpm # 0 /\ s2.token_sum + tokens > tpm
            THEN \* the popped reservation goes back to the front
                 [S |-> [S EXCEPT ![m] = s3], recorded |-> FALSE,
                  sleep |-> SleepFor(IF s1.token_events # <<>>
                                     THEN Max(0, Head(s1.token_events)[1]
                                                 + TOKEN_WINDOW_SECONDS - t)
                                     ELSE TOKEN_WINDOW_SECONDS)]
            ELSE [S |-> [S EXCEPT ![m] =
                            IF tokens # 0
                            THEN [s2 EXCEPT !.token_events = Append(@, <<t, tokens>>),
                                            !.token_sum = @ + tokens]
                            ELSE s2],
                  recorded |-> TRUE, sleep |-> 0]

\* ------------------------------------------------------------ state

VARIABLES
    now,          \* time.monotonic(), in ms
    ticks,        \* how many times the clock advanced
    calls,        \* how many top-level calls were started
    limits,       \* RateLimiter._limits
    st,           \* RateLimiter._states
    pc,           \* where each task is suspended
    task,         \* each task's local variables
    hist,         \* per task, what the current _make_api_call_with_retry did
    held,         \* per task, the reservations admitted for it and not yet recorded
    admLog,       \* per model, the times of the admissions of the last day
    commitLog,    \* per model, the usage <<time, tokens>> recorded in the last minute
    outstanding,  \* per model, the estimates admitted and not yet recorded
    nextAttempt,  \* the argument of the next _calculate_retry_delay
    lastDelay,    \* the delay it returned last (-1: none yet)
    prevDelay,    \* the delay it returned before that (-1: none yet)
    lock,         \* RateLimiter._locks: per model, the task that holds its lock
    errCase       \* a failed provider call on its own: the error and what follows

dvars == <<nextAttempt, lastDelay, prevDelay>>

vars == <<now, ticks, calls, limits, st, pc, task, hist, held, admLog,
          commitLog, outstanding, nextAttempt, lastDelay, prevDelay, lock,
          errCase>>

NoModel == "none"

\* the holder of a lock that is not locked
NoProc == "nobody"

NoTask ==
    [kind |-> "none", primary |-> MODEL_NAME, est |-> 0, attempt |-> 0,
     cur |-> MODEL_NAME, wakeAt |-> 0, tokens |-> 0, after |-> "none", round |-> 0,
     err |-> "none", last_error |-> "none", result |-> "none"]

\* invokes: provider calls made; sleeps: backoff sleeps begun; failures: provider
\* calls that raised; transient: those that raised a transient error
NoHist == [invokes |-> 0, sleeps |-> 0, failures |-> 0, transient |-> 0]

\* no provider call has failed yet
NoCase == [text |-> "", quota |-> "none", attempt |-> 0, decided |-> "none"]

InitWith(choices) ==
    /\ now = 0
    /\ ticks = 0
    /\ calls = 0
    /\ limits \in choices
    /\ st = [m \in Models |-> NoState]
    /\ pc = [p \in Procs |-> "idle"]
    /\ task = [p \in Procs |-> NoTask]
    /\ hist = [p \in Procs |-> NoHist]
    /\ held = [p \in Procs |-> <<>>]
    /\ admLog = [m \in Models |-> <<>>]
    /\ commitLog = [m \in Models |-> <<>>]
    /\ outstanding = [m \in Models |-> 0]
    /\ nextAttempt = 0
    /\ lastDelay = -1
    /\ prevDelay = -1
    /\ lock = [m \in Models |-> NoProc]
    /\ errCase = NoCase

Init == InitWith(LimitChoices)

InitTracker == InitWith(TrackerLimitChoices)

\* the tracker's state together with the bookkeeping of who holds what;
\* used: the models whose lock the running step has taken (and released)
World ==
    [S |-> st, held |-> held, admLog |-> admLog, commitLog |-> commitLog,
     outstanding |-> outstanding, used |-> {}]

\* async with self._get_lock(m), reached only if m has limits
Locked(W, m) == [W EXCEPT !.used = IF limits[m].present THEN @ \cup {m} ELSE @]

\* the pass r of wait_for_request(m, est) with the bookkeeping of who holds what
Reserved(r, W, p, m, est, t) ==
    [admitted |-> r.admitted, sleep |-> r.sleep,
     W |-> IF r.admitted /\ limits[m].present
           THEN [Locked(W, m) EXCEPT !.S = r.S,
                          !.held[p] = Append(@, <<m, Max(0, est)>>),
                          !.admLog[m] = Append(@, t),
                          !.outstanding[m] = @ + Max(0, est)]
           ELSE [Locked(W, m) EXCEPT !.S = r.S]]

\* one pass of wait_for_request(m, est), called by p, at t
Reserve(W, p, m, est, t) ==
    Reserved(WaitForRequestPass(W.S, limits, m, t, est), W, p, m, est, t)

\* the pass r of record_usage(m, tokens) with the bookkeeping of who holds what
Recorded(r, W, p, m, tokens, t) ==
    LET n == Len(W.held[p])
    IN [recorded |-> r.recorded, sleep |-> r.sleep,
        W |-> IF r.recorded /\ limits[m].present
              THEN [Locked(W, m) EXCEPT !.S = r.S,
                             !.held[p] = IF n > 0 THEN SubSeq(@, 1, n - 1) ELSE @,
                             !.outstanding[m] = IF n > 0 THEN @ - W.held[p][n][2] ELSE @,
                             !.commitLog[m] = IF Max(0, tokens) # 0
                                              THEN Append(@, <<t, Max(0, tokens)>>)
                                              ELSE @]
              ELSE [Locked(W, m) EXCEPT !.S = r.S]]

\* record_usage(m, tokens) called by p for its latest reservation, one pass at t
Record(W, p, m, tokens, t) ==
    Recorded(RecordUsagePass(W.S, limits, m, t, tokens), W, p, m, tokens, t)

\* ------------------------------------------------------------ orchestrator

Fallback(primary) == IF ALT_MODEL_NAME # primary THEN ALT_MODEL_NAME ELSE NoModel

\* SelectModel whose first attempt leaves a blocked primary whatever the
\* fallback's wait is
SelectModelAnyFallback(S, lims, primary, est, att, t) ==
    LET fb == Fallback(primary)
        gp == GetWaitTime(S, lims, primary, t, est)
        gf == GetWaitTime(gp.S, lims, fb, t, est)
    IN IF fb = NoModel
       THEN [S |-> S, model |-> primary, wp |-> -1, wf |-> -1]
       ELSE [S |-> gf.S, model |-> IF gp.w > 0 THEN fb ELSE primary,
             wp |-> gp.w, wf |-> gf.w]

\* SelectModel whose later attempts take the fallback whenever the primary's
\* wait is not the shorter one
SelectModelTiesToFallback(S, lims, primary, est, att, t) ==
    LET fb == Fallback(primary)
        gp == GetWaitTime(S, lims, primary, t, est)
        gf == GetWaitTime(gp.S, lims, fb, t, est)
    IN IF fb = NoModel
       THEN [S |-> S, model |-> primary, wp |-> -1, wf |-> -1]
       ELSE IF att > 0
       THEN [S |-> gf.S, model |-> IF gp.w >= gf.w THEN fb ELSE primary,
             wp |-> gp.w, wf |-> gf.w]
       ELSE IF gp.w > 0
       THEN [S |-> gf.S, model |-> IF gf.w = 0 THEN fb ELSE primary,
             wp |-> gp.w, wf |-> gf.w]
       ELSE [S |-> gp.S, model |-> primary, wp |-> gp.w, wf |-> -1]

\* the model an attempt uses, the waits it read (-1: not read) and the state
\* the reads leave
SelectModel(S, lims, primary, est, att, t) ==
    LET fb == Fallback(primary)
        gp == GetWaitTime(S, lims, primary, t, est)
        gf == GetWaitTime(gp.S, lims, fb, t, est)
    IN IF fb = NoModel
       THEN [S |-> S, model |-> primary, wp |-> -1, wf |-> -1]
       ELSE IF att > 0
       THEN [S |-> gf.S, model |-> IF gp.w > 0 THEN fb ELSE primary,
             wp |-> gp.w, wf |-> gf.w]
       ELSE IF gp.w > 0
       THEN [S |-> gf.S, model |-> IF gf.w = 0 THEN fb ELSE primary,
             wp |-> gp.w, wf |-> gf.w]
       ELSE [S |-> gp.S, model |-> primary, wp |-> gp.w, wf |-> -1]

UpperCase == "ABCDEFGHIJKLMNOPQRSTUVWXYZ"

LowerCase == "abcdefghijklmnopqrstuvwxyz"

\* str.lower() on one character
LowerChar(c) ==
    IF \E i \in 1..Len(UpperCase) : SubSeq(UpperCase, i, i) = c
    THEN LET i == CHOOSE k \in 1..Len(UpperCase) : SubSeq(UpperCase, k, k) = c
         IN SubSeq(LowerCase, i, i)
    ELSE c

\* str.lower()
RECURSIVE Lower(_)
Lower(s) ==
    IF Len(s) = 0 THEN ""
    ELSE LowerChar(SubSeq(s, 1, 1)) \o Lower(SubSeq(s, 2, Len(s)))

\* sub in s, scanning s from the left
RECURSIVE In(_, _)
In(sub, s) ==
    IF Len(s) < Len(sub) THEN FALSE
    ELSE IF SubSeq(s, 1, Len(sub)) = sub THEN TRUE
    ELSE In(sub, SubSeq(s, 2, Len(s)))

\* _is_retryable_error without the lower()
IsRetryableErrorCaseSensitive(text) ==
    \/ In("503", text)
    \/ In("overloaded", text)
    \/ In("unavailable", text)
    \/ In("try again later", text)

\* _is_retryable_error(error), text being str(error)
IsRetryableError(text) ==
    \/ In("503", Lower(text))
    \/ In("overloaded", Lower(text))
    \/ In("unavailable", Lower(text))
    \/ In("try again later", Lower(text))

\* what the except block takes the error for: quota is what the quota check
\* found ("none": no quota error), text is str(exc)
ErrorKindOf(quota, text) ==
    IF quota # "none" THEN quota
    ELSE IF IsRetryableError(text) THEN "transient" ELSE "fatal"

CalculateRetryDelay(attempt, jitter) ==
    LET delay == Min(BASE_DELAY * (2 ^ attempt), MAX_DELAY)
    IN Max(MIN_RETRY_DELAY, delay + (jitter * delay) \div 1000)

Outcome(W, tk, newpc, h) == [W |-> W, tk |-> tk, pc |-> newpc, h |-> h]

\* the call returns or raises: its local variables are gone
Finish(W, tk, h, result) ==
    Outcome(W, [NoTask EXCEPT !.kind = tk.kind, !.last_error = tk.last_error,
                              !.result = result], "done", h)

\* wait_for_request returned (r admitted) or sleeps: the provider call is
\* next, or the next pass of wait_for_request's loop
AfterReserve(r, tk, hAdmitted, h, t) ==
    IF r.admitted
    THEN Outcome(r.W, [tk EXCEPT !.wakeAt = 0], "calling", hAdmitted)
    ELSE Outcome(r.W, [tk EXCEPT !.wakeAt = t + r.sleep], "reserving", h)

\* the models whose get_wait_time took the lock in the selection sel
\* (a wait of -1: not called)
Probed(sel, primary) ==
    {m \in Models :
        /\ limits[m].present
        /\ \/ m = primary /\ sel.wp # -1
           \/ m = Fallback(primary) /\ sel.wf # -1}

\* wait_for_request on the model selected
AttemptOn(sel, W, tk, h, p, att, t) ==
    AfterReserve(Reserve([W EXCEPT !.S = sel.S, !.used = @ \cup Probed(sel, tk.primary)],
                         p, sel.model, tk.est, t),
                 [tk EXCEPT !.attempt = att, !.cur = sel.model],
                 [h EXCEPT !.invokes = @ + 1], h, t)

\* the head of the attempt loop: select the model, then wait_for_request
StartAttempt(W, tk, h, p, att, t) ==
    AttemptOn(SelectModel(W.S, limits, tk.primary, tk.est, att, t), W, tk, h, p, att, t)

\* _make_api_call_with_retry called
StartApiCall(W, tk, p, est, t) ==
    StartAttempt(W, [tk EXCEPT !.est = est, !.last_error = "none", !.err = "none"],
                 NoHist, p, 0, t)

\* AfterRelease that gives up on transient errors one attempt early
AfterReleaseGivesUpEarly(W, tk, h, p, t, jitter) ==
    CASE tk.err = "quota_hint" ->
            Finish(W, tk, h, "AttributeError")
      [] tk.err = "quota" ->
            IF tk.attempt < MAX_RETRIES - 1
            THEN StartAttempt(W, [tk EXCEPT !.last_error = "http429", !.err = "none"],
                              h, p, tk.attempt + 1, t)
            ELSE Finish(W, [tk EXCEPT !.last_error = "http429"], h, "http429")
      [] tk.err = "fatal" ->
            Finish(W, [tk EXCEPT !.last_error = "exc"], h, "exc")
      [] OTHER ->
            IF tk.attempt < MAX_RETRIES - 2
            THEN Outcome(W, [tk EXCEPT !.last_error = "exc", !.err = "none",
                                       !.wakeAt = t + CalculateRetryDelay(tk.attempt, jitter)],
                         "backoff", [h EXCEPT !.sleeps = @ + 1])
            ELSE Finish(W, [tk EXCEPT !.last_error = "exc"], h, "http503")

\* AfterRelease that allows one attempt more
AfterReleaseOneMoreAttempt(W, tk, h, p, t, jitter) ==
    CASE tk.err = "quota_hint" ->
            Finish(W, tk, h, "AttributeError")
      [] tk.err = "quota" ->
            IF tk.attempt < MAX_RETRIES
            THEN StartAttempt(W, [tk EXCEPT !.last_error = "http429", !.err = "none"],
                              h, p, tk.attempt + 1, t)
            ELSE Finish(W, [tk EXCEPT !.last_error = "http429"], h, "http429")
      [] tk.err = "fatal" ->
            Finish(W, [tk EXCEPT !.last_error = "exc"], h, "exc")
      [] OTHER ->
            IF tk.attempt < MAX_RETRIES
            THEN Outcome(W, [tk EXCEPT !.last_error = "exc", !.err = "none",
                                       !.wakeAt = t + CalculateRetryDelay(tk.attempt, jitter)],
                         "backoff", [h EXCEPT !.sleeps = @ + 1])
            ELSE Finish(W, [tk EXCEPT !.last_error = "exc"], h, "http503")

\* AfterRelease that takes every error that is not a quota error for a
\* retryable one
AfterReleaseRetriesAll(W, tk, h, p, t, jitter) ==
    CASE tk.err = "quota_hint" ->
            Finish(W, tk, h, "AttributeError")
      [] tk.err = "quota" ->
            IF tk.attempt < MAX_RETRIES - 1
            THEN StartAttempt(W, [tk EXCEPT !.last_error = "http429", !.err = "none"],
                              h, p, tk.attempt + 1, t)
            ELSE Finish(W, [tk EXCEPT !.last_error = "http429"], h, "http429")
      [] OTHER ->
            IF tk.attempt < MAX_RETRIES - 1
            THEN Outcome(W, [tk EXCEPT !.last_error = "exc", !.err = "none",
                                       !.wakeAt = t + CalculateRetryDelay(tk.attempt, jitter)],
                         "backoff", [h EXCEPT !.sleeps = @ + 1])
            ELSE Finish(W, [tk EXCEPT !.last_error = "exc"], h, "http503")

\* AfterRelease that sleeps before the attempt that follows a quota error
AfterReleaseSleepsOnQuota(W, tk, h, p, t, jitter) ==
    CASE tk.err = "quota_hint" ->
            Finish(W, tk, h, "AttributeError")
      [] tk.err = "fatal" ->
            Finish(W, [tk EXCEPT !.last_error = "exc"], h, "exc")
      [] OTHER ->
            IF tk.attempt < MAX_RETRIES - 1
            THEN Outcome(W, [tk EXCEPT !.last_error = IF tk.err = "quota"
                                                      THEN "http429" ELSE "exc",
                                       !.err = "none",
                                       !.wakeAt = t + CalculateRetryDelay(tk.attempt, jitter)],
                         "backoff", [h EXCEPT !.sleeps = @ + 1])
            ELSE IF tk.err = "quota"
            THEN Finish(W, [tk EXCEPT !.last_error = "http429"], h, "http429")
            ELSE Finish(W, [tk EXCEPT !.last_error = "exc"], h, "http503")

\* the except block after record_usage(current_model, 0) has returned
AfterRelease(W, tk, h, p, t, jitter) ==
    CASE tk.err = "quota_hint" ->
            \* rate_limiter.register_backoff does not exist
            Finish(W, tk, h, "AttributeError")
      [] tk.err = "quota" ->
            IF tk.attempt < MAX_RETRIES - 1
            THEN StartAttempt(W, [tk EXCEPT !.last_error = "http429", !.err = "none"],
                              h, p, tk.attempt + 1, t)
            ELSE Finish(W, [tk EXCEPT !.last_error = "http429"], h, "http429")
      [] tk.err = "fatal" ->
            Finish(W, [tk EXCEPT !.last_error = "exc"], h, "exc")
      [] OTHER ->
            IF tk.attempt < MAX_RETRIES - 1
            THEN Outcome(W, [tk EXCEPT !.last_error = "exc", !.err = "none",
                                       !.wakeAt = t + CalculateRetryDelay(tk.attempt, jitter)],
                         "backoff", [h EXCEPT !.sleeps = @ + 1])
            ELSE Finish(W, [tk EXCEPT !.last_error = "exc"], h, "http503")

\* what follows a record_usage that has returned
AfterRecord(W, tk, h, p, t, jitter) ==
    IF tk.after = "failed"
    THEN AfterRelease(W, [tk EXCEPT !.after = "none"], h, p, t, jitter)
    ELSE Finish(W, [tk EXCEPT !.after = "none"], h, "ok")

\* record_usage returned (r recorded) or sleeps
RecordPass(r, tk1, h, p, t, jitter) ==
    IF r.recorded
    THEN AfterRecord(r.W, [tk1 EXCEPT !.tokens = 0], h, p, t, jitter)
    ELSE Outcome(r.W, [tk1 EXCEPT !.wakeAt = t + r.sleep], "recording", h)

\* record_usage(tk.cur, tokens) called, and what follows it if it returns
CallRecord(W, tk, h, p, tokens, after, t, jitter) ==
    RecordPass(Record(W, p, tk.cur, tokens, t),
               [tk EXCEPT !.tokens = tokens, !.after = after], h, p, t, jitter)

\* LockHolderAfter of a tracker that sleeps inside the async with block
LockHeldAsleep(p, newpc) ==
    IF newpc \in {"reserving", "recording"} THEN p ELSE NoProc

\* who holds the lock of a model the step has used when the step is over, the
\* task returning, sleeping (newpc is "reserving", "recording" or "backoff")
\* or with the provider: nobody, every async with block has been left
LockHolderAfter(p, newpc) == NoProc

Apply(p, o) ==
    /\ \A m \in o.W.used : lock[m] = NoProc
    /\ lock' = [m \in Models |-> IF m \in o.W.used
                                 THEN LockHolderAfter(p, o.pc) ELSE lock[m]]
    /\ st' = o.W.S
    /\ held' = o.W.held
    /\ admLog' = o.W.admLog
    /\ commitLog' = o.W.commitLog
    /\ outstanding' = o.W.outstanding
    /\ pc' = [pc EXCEPT ![p] = o.pc]
    /\ task' = [task EXCEPT ![p] = o.tk]
    /\ hist' = [hist EXCEPT ![p] = o.h]
    /\ UNCHANGED <<dvars, errCase>>

Free(p) == pc[p] \in {"idle", "done"} /\ calls < MaxCalls

Fresh(kind, primary) ==
    [NoTask EXCEPT !.kind = kind, !.primary = primary, !.cur = primary]

NewCall(W, p) == [W EXCEPT !.held[p] = <<>>]

\* ------------------------------------------------------------ actions

\* generate_catalyst_response called: the initial _make_api_call_with_retry
StartGenerate(p, primary, est) ==
    /\ Free(p)
    /\ calls' = calls + 1
    /\ Apply(p, StartApiCall(NewCall(World, p), Fresh("generate", primary), p, est, now))
    /\ UNCHANGED <<now, ticks, limits>>

\* update_ltm_memory called: wait_for_request(ALT_MODEL_NAME, estimate)
StartMemory(p, est) ==
    /\ Free(p)
    /\ calls' = calls + 1
    /\ Apply(p, AfterReserve(Reserve(NewCall(World, p), p, ALT_MODEL_NAME, est, now),
                              [Fresh("memory", ALT_MODEL_NAME) EXCEPT !.est = est],
                              NoHist, NoHist, now))
    /\ UNCHANGED <<now, ticks, limits>>

\* a caller of the tracker alone (tests, demo): wait_for_request(m, est)
StartDirect(p, m, est) ==
    /\ pc[p] \in {"idle", "done"}
    /\ calls < MaxDirectCalls
    /\ calls' = calls + 1
    /\ Apply(p, AfterReserve(Reserve(NewCall(World, p), p, m, est, now),
                              [Fresh("direct", m) EXCEPT !.est = est],
                              NoHist, NoHist, now))
    /\ UNCHANGED <<now, ticks, limits>>

\* the sleep inside wait_for_request is over: the next pass of its loop
ReserveRecheck(p) ==
    /\ pc[p] = "reserving"
    /\ now >= task[p].wakeAt
    /\ Apply(p, AfterReserve(Reserve(World, p, task[p].cur, task[p].est, now),
                              task[p],
                              IF task[p].kind = "generate"
                              THEN [hist[p] EXCEPT !.invokes = @ + 1]
                              ELSE hist[p],
                              hist[p], now))
    /\ UNCHANGED <<now, ticks, calls, limits>>

\* the sleep inside record_usage is over: the next pass of its loop
RecordRecheck(p, jitter) ==
    /\ pc[p] = "recording"
    /\ now >= task[p].wakeAt
    /\ Apply(p, CallRecord(World, [task[p] EXCEPT !.wakeAt = 0], hist[p], p,
                           task[p].tokens, task[p].after, now, jitter))
    /\ UNCHANGED <<now, ticks, calls, limits>>

\* generate_content returned a response to _make_api_call_with_retry
ProviderSucceeds(p, has_calls, actual) ==
    /\ pc[p] = "calling"
    /\ task[p].kind = "generate"
    /\ LET tk == task[p]
       IN Apply(p,
            IF tk.round >= MAX_TOOL_ROUNDS
            THEN \* the for loop ran out: "repeated tool calls"
                 Finish(World, tk, hist[p], "http500")
            ELSE IF has_calls
            THEN StartApiCall(World, [tk EXCEPT !.round = @ + 1], p, 0, now)
            ELSE CallRecord(World, tk, hist[p], p, actual, "final", now, 0))
    /\ UNCHANGED <<now, ticks, calls, limits>>

\* generate_content raised in _make_api_call_with_retry; the except block
\* runs _parse_quota_error on a ClientError first, and that raises on a 429
\* whose payload is not of the expected shape ("quota_unparsable")
ProviderFails(p, err, jitter) ==
    /\ pc[p] = "calling"
    /\ task[p].kind = "generate"
    /\ LET h == [hist[p] EXCEPT !.failures = @ + 1,
                                !.transient = IF err = "transient" THEN @ + 1 ELSE @]
       IN Apply(p, IF err = "quota_unparsable"
                   THEN Finish(World, task[p], h, "TypeError")
                   ELSE CallRecord(World, [task[p] EXCEPT !.err = err], h,
                                   p, 0, "failed", now, jitter))
    /\ UNCHANGED <<now, ticks, calls, limits>>

\* the orchestrator's backoff sleep is over: the next attempt
BackoffOver(p) ==
    /\ pc[p] = "backoff"
    /\ now >= task[p].wakeAt
    /\ Apply(p, StartAttempt(World, [task[p] EXCEPT !.wakeAt = 0], hist[p], p,
                             task[p].attempt + 1, now))
    /\ UNCHANGED <<now, ticks, calls, limits>>

\* update_ltm_memory: generate_content returned
MemorySucceeds(p, actual) ==
    /\ pc[p] = "calling"
    /\ task[p].kind = "memory"
    /\ Apply(p, CallRecord(World, task[p], hist[p], p, actual, "final", now, 0))
    /\ UNCHANGED <<now, ticks, calls, limits>>

\* update_ltm_memory: generate_content raised, return False
MemoryFails(p) ==
    /\ pc[p] = "calling"
    /\ task[p].kind = "memory"
    /\ Apply(p, Finish(World, task[p], hist[p], "false"))
    /\ UNCHANGED <<now, ticks, calls, limits>>

\* a caller of the tracker alone: record_usage(m, tokens)
DirectRecord(p, tokens) ==
    /\ pc[p] = "calling"
    /\ task[p].kind = "direct"
    /\ Apply(p, CallRecord(World, task[p], hist[p], p, tokens, "final", now, 0))
    /\ UNCHANGED <<now, ticks, calls, limits>>

Sleepers == {p \in Procs : pc[p] \in {"reserving", "recording", "backoff"}}

NextWake ==
    CHOOSE w \in {task[p].wakeAt : p \in Sleepers} :
        \A p \in Sleepers : w <= task[p].wakeAt

\* the logs keep what the windows still hold at time t
Recent(log, t) ==
    [m \in Models |->
        SelectSeq(log[m], LAMBDA e : t - e < DAY_WINDOW_SECONDS)]

RecentCommits(log, t) ==
    [m \in Models |->
        SelectSeq(log[m], LAMBDA e : t - e[1] < TOKEN_WINDOW_SECONDS)]

\* time passes; the event loop wakes a sleeper when its sleep is over, so the
\* clock does not pass a wake-up time
Tick(d) ==
    /\ ticks < MaxTicks
    /\ Sleepers # {} => now + d <= NextWake
    /\ ticks' = ticks + 1
    /\ now' = now + d
    /\ admLog' = Recent(admLog, now')
    /\ commitLog' = RecentCommits(commitLog, now')
    /\ UNCHANGED <<calls, limits, st, pc, task, hist, held, outstanding>>
    /\ UNCHANGED <<dvars, lock, errCase>>

\* time passes until the earliest sleeper is due
TickToWake ==
    /\ ticks < MaxTicks
    /\ Sleepers # {}
    /\ NextWake > now
    /\ ticks' = ticks + 1
    /\ now' = NextWake
    /\ admLog' = Recent(admLog, now')
    /\ commitLog' = RecentCommits(commitLog, now')
    /\ UNCHANGED <<calls, limits, st, pc, task, hist, held, outstanding>>
    /\ UNCHANGED <<dvars, lock, errCase>>

ErrorKinds == {"quota_hint", "quota", "quota_unparsable", "transient", "fatal"}

Next ==
    \/ \E p \in ChatProcs, m \in Models, e \in PromptChoices : StartGenerate(p, m, e)
    \/ \E p \in MemoryProcs, e \in PromptChoices : StartMemory(p, e)
    \/ \E p \in Procs : ReserveRecheck(p)
    \/ \E p \in Procs, j \in JitterChoices : RecordRecheck(p, j)
    \/ \E p \in Procs, c \in BOOLEAN, a \in {0} \cup TokChoices : ProviderSucceeds(p, c, a)
    \/ \E p \in Procs, k \in ErrorKinds, j \in JitterChoices : ProviderFails(p, k, j)
    \/ \E p \in Procs : BackoffOver(p)
    \/ \E p \in Procs, a \in {0} \cup TokChoices : MemorySucceeds(p, a)
    \/ \E p \in Procs : MemoryFails(p)
    \/ \E d \in TickSteps : Tick(d)
    \/ TickToWake

Spec == Init /\ [][Next]_vars

\* the tracker under callers of its own (tests/test_rate_limiter.py)
NextTracker ==
    \/ \E p \in Procs, m \in Models, e \in EstChoices : StartDirect(p, m, e)
    \/ \E p \in Procs : ReserveRecheck(p)
    \/ \E p \in Procs : RecordRecheck(p, 0)
    \/ \E p \in Procs, a \in {0} \cup TokChoices : DirectRecord(p, a)
    \/ \E d \in TickSteps : Tick(d)
    \/ TickToWake

SpecTracker == InitTracker /\ [][NextTracker]_vars

\* the tracker under callers whose estimates and usage can be larger than
\* the token ceiling
InitOversize == InitWith(OversizeLimitChoices)

SpecOversize == InitOversize /\ [][NextTracker]_vars

\* the application with a primary model the limits map may not hold
InitUnlisted == InitWith(UnlistedLimitChoices)

SpecUnlisted == InitUnlisted /\ [][Next]_vars

\* _calculate_retry_delay(attempt) for attempt = 0, 1, ..., each with a jitter
\* of its own
RetryDelay(jitter) ==
    /\ nextAttempt <= MaxAttempt
    /\ lastDelay' = CalculateRetryDelay(nextAttempt, jitter)
    /\ prevDelay' = lastDelay
    /\ nextAttempt' = nextAttempt + 1
    /\ UNCHANGED <<now, ticks, calls, limits, st, pc, task, hist, held, admLog,
                   commitLog, outstanding, lock, errCase>>

NextDelay == \E j \in DelayJitterChoices : RetryDelay(j)

SpecDelay == Init /\ [][NextDelay]_vars

\* a caller asks get_wait_time(m, est) (tests/test_rate_limiter.py
\* test_get_wait_time, the status report of the application)
QueryWaitTime(m, est) ==
    /\ lock[m] = NoProc
    /\ st' = GetWaitTime(st, limits, m, now, est).S
    /\ st' # st
    /\ UNCHANGED <<now, ticks, calls, limits, pc, task, hist, held, admLog,
                   commitLog, outstanding, lock, dvars, errCase>>

\* the tracker under callers of its own that also ask for the wait time
NextStatus ==
    \/ NextTracker
    \/ \E m \in Models, e \in EstChoices : QueryWaitTime(m, e)

SpecStatus == InitTracker /\ [][NextStatus]_vars

\* the errors of tests/test_retry_logic.py and demo_retry_logic.py
RetryableTexts ==
    { "Error 503: Service unavailable",
      "The model is overloaded. Please try again later.",
      "UNAVAILABLE: Service temporarily unavailable",
      "503 error occurred",
      "503 Service Unavailable" }

NonRetryableTexts ==
    { "Invalid API key",
      "400 Bad Request",
      "400 Bad Request: Invalid input",
      "Rate limit exceeded",
      "Authentication failed" }

\* str(exc) of the failed provider call
ErrorTexts ==
    RetryableTexts \cup NonRetryableTexts \cup
    { "", "Try Again Later", "try again", "OVERLOADED", "overload", "x1503y",
      "50 3", "5O3", "Unavailabl", "429 RESOURCE_EXHAUSTED", "500 Internal error" }

\* what the quota check of the except block finds
QuotaChoices == {"none", "quota", "quota_hint"}

\* what the except block does with the error once the reservation is released
Decision(o) ==
    CASE o.pc = "backoff" -> "sleep"
      [] o.pc \in {"reserving", "calling"} -> "next_attempt"
      [] OTHER -> o.tk.result

\* the provider call of attempt att raises an error whose text is text
FailedCall(text, quota, att, jitter) ==
    /\ errCase' =
          [text |-> text, quota |-> quota, attempt |-> att,
           decided |-> Decision(AfterRelease(
                          World,
                          [Fresh("generate", MODEL_NAME)
                             EXCEPT !.attempt = att, !.err = ErrorKindOf(quota, text)],
                          NoHist, CHOOSE p \in ChatProcs : TRUE, now, jitter))]
    /\ UNCHANGED <<now, ticks, calls, limits, st, pc, task, hist, held, admLog,
                   commitLog, outstanding, lock, dvars>>

NextClassify ==
    \E text \in ErrorTexts, q \in QuotaChoices, att \in 0..(MAX_RETRIES - 1),
       j \in JitterChoices : FailedCall(text, q, att, j)

SpecClassify == Init /\ [][NextClassify]_vars

\* ------------------------------------------------------------ properties

\* the admissions of model m whose time lies in the window that ends now
AdmittedIn(m, window) ==
    Cardinality({i \in DOMAIN admLog[m] : now - admLog[m][i] < window})

\* C1: for a model with a limit of N requests per minute (of D requests per
\* day), the admissions whose time lies in the trailing 60 s (86 400 s) are
\* never more than N (than D), whatever the interleaving of the callers of
\* wait_for_request.
C1_WindowsNeverExceeded ==
    \A m \in Models :
        /\ limits[m].rpm > 0 => AdmittedIn(m, TOKEN_WINDOW_SECONDS) <= limits[m].rpm
        /\ limits[m].rpd > 0 => AdmittedIn(m, DAY_WINDOW_SECONDS) <= limits[m].rpd

\* two callers waited for the last slot of a minute window; one has just been
\* admitted after its sleep and the other is still waiting
C1_Witness ==
    \E m \in Models, p \in Procs, q \in Procs :
        /\ p # q
        /\ limits[m].rpm > 0
        /\ AdmittedIn(m, TOKEN_WINDOW_SECONDS) = limits[m].rpm
        /\ pc[p] = "reserving" /\ task[p].cur = m /\ task[p].wakeAt > now
        /\ pc[q] = "calling" /\ task[q].cur = m
        /\ now >= TOKEN_WINDOW_SECONDS
        /\ admLog[m][Len(admLog[m])] = now

\* p calls wait_for_request in this step as a caller of the tracker alone
DirectCallBegins(p) ==
    /\ pc[p] \in {"idle", "done"}
    /\ pc'[p] \in {"calling", "reserving"}
    /\ task'[p].kind = "direct"

\* p's wait_for_request is admitted in this step
AdmittedNow(p) ==
    /\ pc[p] \in {"idle", "done", "reserving"}
    /\ pc'[p] = "calling"
    /\ task'[p].kind = "direct"

\* only the requests-per-minute limit of m is configured
RpmOnly(m) == limits[m].rpm > 0 /\ limits[m].tpm = 0 /\ limits[m].rpd = 0

\* the time of the oldest of the last n admissions of m
OldestOfLast(m, n) == admLog[m][Len(admLog[m]) - n + 1]

\* C2: with only requestsPerMinute = N configured, a wait_for_request call
\* returns without suspending exactly when fewer than N admissions lie in
\* the trailing 60 s (so from an empty state exactly the first N calls of a
\* window do); the call after them suspends, until the oldest of the N
\* timestamps is 60 s old, and it is admitted only once fewer than N
\* admissions are left in the window.
C2_FirstNImmediate ==
    [][\A p \in Procs, m \in Models :
          LET N == limits[m].rpm
              n == AdmittedIn(m, TOKEN_WINDOW_SECONDS)
          IN /\ RpmOnly(m) /\ DirectCallBegins(p) /\ task'[p].cur = m =>
                  /\ n < N => pc'[p] = "calling"
                  /\ n >= N =>
                        /\ pc'[p] = "reserving"
                        /\ task'[p].wakeAt = OldestOfLast(m, N) + TOKEN_WINDOW_SECONDS
             /\ RpmOnly(m) /\ AdmittedNow(p) /\ task'[p].cur = m =>
                  /\ n < N
                  /\ Len(admLog[m]) >= N => now - OldestOfLast(m, N) >= TOKEN_WINDOW_SECONDS
      ]_vars

\* N = 2: two calls were admitted at once and the third of the same window sleeps
\* until the older of the two is 60 s old
C2_Witness ==
    \E m \in Models, p \in Procs :
        /\ RpmOnly(m) /\ limits[m].rpm = 2
        /\ Len(admLog[m]) = 2
        /\ AdmittedIn(m, TOKEN_WINDOW_SECONDS) = 2
        /\ pc[p] = "reserving" /\ task[p].cur = m
        /\ task[p].wakeAt = admLog[m][1] + TOKEN_WINDOW_SECONDS
        /\ now > admLog[m][1]
        /\ now < task[p].wakeAt

\* the usage recorded for m in the trailing 60 s
CommittedIn(m) ==
    SumCounts(SelectSeq(commitLog[m], LAMBDA e : now - e[1] < TOKEN_WINDOW_SECONDS))

\* the request windows of m have room for one more admission
RequestRoom(m) ==
    /\ limits[m].rpm > 0 => AdmittedIn(m, TOKEN_WINDOW_SECONDS) < limits[m].rpm
    /\ limits[m].rpd > 0 => AdmittedIn(m, DAY_WINDOW_SECONDS) < limits[m].rpd

\* an estimate e fits into the token window of m
Fits(m, e) ==
    CommittedIn(m) + SumSeq(st[m].placeholder_tokens) + e <= limits[m].tpm

\* C3: with tokensPerMinute = T > 0, wait_for_request(m, e) is admitted only
\* in a state where the tokens committed in the trailing 60 s plus the pending
\* reservations plus e are at most T; a request that fits (the request
\* windows having room) is admitted at once, and one that does not fit
\* suspends at least until the oldest committed token event of the window is
\* 60 s old.
C3_TokenWindowAdmission ==
    [][\A p \in Procs, m \in Models :
          LET e == task'[p].est
          IN /\ limits[m].tpm > 0 /\ AdmittedNow(p) /\ task'[p].cur = m => Fits(m, e)
             /\ limits[m].tpm > 0 /\ DirectCallBegins(p) /\ task'[p].cur = m =>
                  /\ Fits(m, e) /\ RequestRoom(m) => pc'[p] = "calling"
                  /\ ~Fits(m, e) =>
                        /\ pc'[p] = "reserving"
                        /\ task'[p].wakeAt > now
                        /\ commitLog[m] # <<>> =>
                              task'[p].wakeAt >= commitLog[m][1][1] + TOKEN_WINDOW_SECONDS
      ]_vars

\* T = 4 with 3 tokens committed in the window: a reservation of 1 was admitted at
\* once, and the reservation that follows it waits for the commit to leave the
\* window
C3_Witness ==
    \E m \in Models, p \in Procs, q \in Procs :
        /\ limits[m].tpm = 4
        /\ CommittedIn(m) = 3
        /\ pc[q] = "calling" /\ task[q].cur = m /\ task[q].est = 1
        /\ st[m].placeholder_tokens = <<1>>
        /\ pc[p] = "reserving" /\ task[p].cur = m /\ task[p].est > 0
        /\ task[p].wakeAt = commitLog[m][1][1] + TOKEN_WINDOW_SECONDS

\* C6: in every reachable state and for every estimate x, get_wait_time(m, x)
\* returns 0 exactly when a wait_for_request(m, x) started in that state at
\* that time is admitted by its first check.
C6_WaitTimeZeroIffAdmitted ==
    \A m \in Models, x \in EstChoices :
        (GetWaitTime(st, limits, m, now, x).w = 0)
            <=> WaitForRequestPass(st, limits, m, now, x).admitted

\* a state with usage recorded in which one estimate is admitted at once and a
\* larger one is not
C6_Witness ==
    \E m \in Models, x \in EstChoices, y \in EstChoices :
        /\ st[m].token_events # <<>>
        /\ GetWaitTime(st, limits, m, now, x).w = 0
        /\ WaitForRequestPass(st, limits, m, now, x).admitted
        /\ GetWaitTime(st, limits, m, now, y).w > 0
        /\ ~WaitForRequestPass(st, limits, m, now, y).admitted

\* C4: for every model, token_sum + pending_token_sum (of the pruned state)
\* equals the usage committed in the trailing 60 s plus the estimates of the
\* reservations admitted and not yet committed or released.
C4_LedgerBalanced ==
    \A m \in Models :
        LET s == PruneTokens(st[m], now)
        IN s.token_sum + s.pending_token_sum = CommittedIn(m) + outstanding[m]

\* C5: when a call of generate_catalyst_response or update_ltm_memory has
\* returned or raised, every reservation that wait_for_request admitted for
\* it has been matched by a record_usage: none is left behind.
C5_EveryReservationRecorded ==
    \A p \in Procs : pc[p] = "done" => held[p] = <<>>

\* p enters _make_api_call_with_retry in this step: the initial call of
\* generate_catalyst_response or a follow-up call of its tool loop
ApiCallBegins(p) ==
    /\ task'[p].kind = "generate"
    /\ \/ pc[p] \in {"idle", "done"} /\ pc'[p] \notin {"idle", "done"}
       \/ task[p].kind = "generate" /\ task'[p].round = task[p].round + 1

\* what get_wait_time(m, est) returns in the tracker state S now
WaitNow(S, m, est) == GetWaitTime(S, limits, m, now, est).w

\* C7: on the first attempt the fallback is selected exactly when a fallback
\* exists, get_wait_time(primary, estimate) > 0 and get_wait_time(fallback,
\* estimate) = 0, and the primary otherwise; with rpm = 1 on both models, a
\* call issued in the minute of an admission on the primary, the fallback
\* being unused, goes to the fallback and is admitted without waiting.
C7_FirstAttemptSelection ==
    [][\A p \in Procs :
          ApiCallBegins(p) =>
             LET primary == task'[p].primary
                 fb == Fallback(primary)
                 est == task'[p].est
             IN /\ task'[p].attempt = 0
                /\ task'[p].cur =
                      IF /\ fb # NoModel
                         /\ WaitNow(st, primary, est) > 0
                         /\ WaitNow(st, fb, est) = 0
                      THEN fb ELSE primary
                /\ ( /\ fb # NoModel
                     /\ \A m \in Models : limits[m].rpm = 1 /\ limits[m].tpm = 0
                                                             /\ limits[m].rpd = 0
                     /\ AdmittedIn(primary, TOKEN_WINDOW_SECONDS) = 1
                     /\ AdmittedIn(fb, TOKEN_WINDOW_SECONDS) = 0 )
                   => task'[p].cur = fb /\ pc'[p] = "calling"
      ]_vars

\* rpm = 1 on both models: a call succeeded on the primary, and the second call of
\* the same minute is with the provider on the fallback
C7_Witness ==
    \E p \in Procs :
        /\ \A m \in Models : limits[m].rpm = 1
        /\ calls = 2
        /\ pc[p] = "calling" /\ task[p].kind = "generate"
        /\ task[p].round = 0 /\ task[p].attempt = 0
        /\ task[p].primary = MODEL_NAME /\ task[p].cur = ALT_MODEL_NAME
        /\ AdmittedIn(MODEL_NAME, TOKEN_WINDOW_SECONDS) = 1
        /\ admLog[ALT_MODEL_NAME] = <<now>>
        /\ held[p] = <<<<ALT_MODEL_NAME, task[p].est>>>>

\* p begins an attempt after a failed one in this step
RetryBegins(p) ==
    /\ task[p].kind = "generate"
    /\ task'[p].kind = "generate"
    /\ task'[p].attempt = task[p].attempt + 1

\* the tracker state the selection of that attempt reads: after a backoff
\* sleep the current one, after a quota error the one record_usage(cur, 0) left
RetryState(p) ==
    IF pc[p] = "backoff" THEN st
    ELSE RecordUsagePass(st, limits, task[p].cur, now, 0).S

C9_TransientExhaustion ==
    \A p \in Procs :
        ( /\ pc[p] = "done" /\ task[p].kind = "generate"
          /\ hist[p].failures > 0
          /\ hist[p].failures = hist[p].invokes
          /\ hist[p].transient = hist[p].failures )
        => /\ MAX_RETRIES = 4
           /\ hist[p].invokes = MAX_RETRIES
           /\ hist[p].sleeps = MAX_RETRIES - 1
           /\ task[p].result = "http503"
           /\ task[p].last_error = "exc"

\* four attempts have failed with a transient error and the call has raised 503
C9_Witness ==
    \E p \in Procs :
        /\ pc[p] = "done" /\ task[p].kind = "generate"
        /\ hist[p].invokes = 4 /\ hist[p].failures = 4 /\ hist[p].transient = 4
        /\ hist[p].sleeps = 3
        /\ task[p].result = "http503"

C11_NonRetryableRaisesAtOnce ==
    [][\A p \in Procs, j \in JitterChoices :
          ProviderFails(p, "fatal", j) =>
             /\ pc'[p] = "done"
             /\ task'[p].result = "exc"
             /\ task'[p].last_error = "exc"
             /\ hist'[p].invokes = hist[p].invokes
             /\ hist'[p].sleeps = hist[p].sleeps
      ]_vars

\* a call has ended with the error of its third attempt, after two transient
\* failures and their backoff sleeps
C11_Witness ==
    \E p \in Procs :
        /\ pc[p] = "done" /\ task[p].kind = "generate"
        /\ task[p].result = "exc"
        /\ hist[p].invokes = 3 /\ hist[p].failures = 3 /\ hist[p].transient = 2
        /\ hist[p].sleeps = 2

\* C12: an attempt that fails with a quota error (429), with a retry-after
\* hint or without one, is followed by the next attempt if attempts remain,
\* and by the 429 error raised to the caller if it was the last attempt;
\* nothing else comes out of the quota path.
C12_QuotaPath ==
    [][\A p \in Procs, j \in JitterChoices, k \in {"quota", "quota_hint"} :
          ProviderFails(p, k, j) =>
             IF task[p].attempt < MAX_RETRIES - 1
             THEN /\ pc'[p] \in {"calling", "reserving"}
                  /\ task'[p].attempt = task[p].attempt + 1
             ELSE /\ pc'[p] = "done"
                  /\ task'[p].result = "http429"
      ]_vars

\* the retry-after hints (ms) a quota error carries
RetryAfterChoices == {5000}

\* C13: right after an attempt on a model has failed with a quota error that
\* carries retry-after = s, get_wait_time on that model returns at least s.
C13_BackoffRegistered ==
    [][\A p \in Procs, j \in JitterChoices, s \in RetryAfterChoices :
          ProviderFails(p, "quota_hint", j) =>
             GetWaitTime(st', limits, task[p].cur, now', 0).w >= s
      ]_vars

\* C14: a call all of whose MAX_RETRIES attempts failed, with quota or
\* transient errors, raises the 429 quota error if any of the attempts failed
\* with a quota error, and the 503 made from the last error otherwise.
C14_QuotaErrorPreferred ==
    \A p \in Procs :
        ( /\ pc[p] = "done" /\ task[p].kind = "generate"
          /\ hist[p].invokes = MAX_RETRIES /\ hist[p].failures = MAX_RETRIES
          /\ task[p].result \in {"http429", "http503"} )
        => task[p].result = IF hist[p].failures > hist[p].transient
                            THEN "http429" ELSE "http503"

\* C15: whatever the error of a failed attempt is, and whatever its
\* classification does, the attempt's reservation has been released when the
\* except block is left: the task holds one reservation less than before,
\* not counting the one of a next attempt admitted in the same step.
C15_ReleasedWhateverTheError ==
    [][\A p \in Procs, j \in JitterChoices, k \in ErrorKinds :
          ProviderFails(p, k, j) =>
             Len(held'[p]) = Len(held[p]) - 1 + (IF pc'[p] = "calling" THEN 1 ELSE 0)
      ]_vars

\* p's generate_catalyst_response returns in this step, its only provider
\* call having failed twice with a transient error and succeeded on the third
\* attempt
ThirdAttemptSucceeds(p) ==
    /\ task[p].kind = "generate"
    /\ pc[p] \in {"calling", "recording"}
    /\ task[p].round = 0
    /\ hist[p] = [invokes |-> 3, sleeps |-> 2, failures |-> 2, transient |-> 2]
    /\ pc'[p] = "done"
    /\ task'[p].result = "ok"

\* C16: when the provider call fails twice with a transient error and succeeds
\* on the third attempt, the call returns with the model of the third
\* attempt; the only reservation the call holds is the one of that attempt,
\* and the return leaves none; the return commits the actual tokens only
\* and, the tracker having served no other call, leaves token events that
\* hold the actual tokens and nothing else, no placeholder and a
\* pending_token_sum of 0.
C16_ThirdAttemptSuccess ==
    [][\A p \in Procs :
          ThirdAttemptSucceeds(p) =>
             LET m == task[p].cur
                 before == PruneTokens(st[m], now)
             IN /\ held[p] = <<<<m, task[p].est>>>>
                /\ held'[p] = <<>>
                /\ \E a \in {0} \cup TokChoices :
                      /\ pc[p] = "recording" => a = task[p].tokens
                      /\ st'[m].token_sum = before.token_sum + a
                      /\ st'[m].token_events =
                            IF a = 0 THEN before.token_events
                            ELSE Append(before.token_events, <<now, a>>)
                      /\ calls = 1 =>
                            /\ st'[m].token_sum = a
                            /\ st'[m].placeholder_tokens = <<>>
                            /\ st'[m].pending_token_sum = 0
                            /\ \A m2 \in Models :
                                  st'[m2].token_events \in {<<>>, <<<<now, a>>>>}
      ]_vars

\* the first call of a behaviour has returned after two transient failures and a
\* success; its actual tokens are all the tracker holds
C16_Witness ==
    \E p \in Procs, m \in Models :
        /\ calls = 1
        /\ pc[p] = "done" /\ task[p].kind = "generate" /\ task[p].result = "ok"
        /\ hist[p] = [invokes |-> 3, sleeps |-> 2, failures |-> 2, transient |-> 2]
        /\ held[p] = <<>>
        /\ st[m].token_events = <<<<now, 3>>>>
        /\ st[m].placeholder_tokens = <<>>
        /\ Len(admLog[MODEL_NAME]) + Len(admLog[ALT_MODEL_NAME]) = 3

\* p is inside _make_api_call_with_retry
InApiCall(p) ==
    /\ task[p].kind = "generate"
    /\ pc[p] \in {"reserving", "calling", "backoff"}

\* what a chat request ends with: "ok" and "http500" after the last call has
\* returned, the others raised by the call
Raised == {"exc", "http429", "http503", "AttributeError", "TypeError"}

Results == {"ok", "http500"} \cup Raised

\* how far the attempt loop of p's call has come: the tool round the call
\* belongs to, the attempt, and the place within the attempt
Progress(p) ==
    task[p].round * (3 * MAX_RETRIES) + task[p].attempt * 3
        + (CASE pc[p] = "reserving" -> 0 [] pc[p] = "calling" -> 1 [] OTHER -> 2)

\* C17: whatever the provider's outcomes are, one _make_api_call_with_retry
\* makes at most MAX_RETRIES = 4 provider calls in at most MAX_RETRIES
\* attempts and never suspends in the release of a failed attempt; every
\* step it takes brings it further in a loop of bounded length (a later
\* place of the attempt, a later attempt, or the next call of the tool
\* loop), the one exception being a reservation wait that has to be
\* repeated; and a step that ends it either returns the response (the
\* caller goes on to record the usage, to the next call of the tool loop or
\* to its own error for too many tool rounds) or raises an error.
C17_BoundedAndTerminates ==
    /\ [](\A p \in Procs :
            /\ hist[p].invokes <= MAX_RETRIES
            /\ hist[p].failures <= hist[p].invokes
            /\ hist[p].sleeps < MAX_RETRIES
            /\ task[p].attempt < MAX_RETRIES
            /\ MAX_RETRIES = 4
            /\ task[p].round <= MAX_TOOL_ROUNDS
            /\ Progress(p) < (MAX_TOOL_ROUNDS + 1) * (3 * MAX_RETRIES)
            /\ ~(pc[p] = "recording" /\ task[p].after = "failed")
            /\ (pc[p] = "done" /\ task[p].kind = "generate")
                  => task[p].result \in Results)
    /\ [][\A p \in ChatProcs :
            (InApiCall(p) /\ <<pc[p], task[p], hist[p]>>' # <<pc[p], task[p], hist[p]>>)
            => IF InApiCall(p)'
               THEN \/ Progress(p)' > Progress(p)
                    \/ /\ pc[p] = "reserving" /\ pc'[p] = "reserving"
                       /\ Progress(p)' = Progress(p)
                       /\ now >= task[p].wakeAt
                       /\ task'[p].wakeAt > now
               ELSE \/ /\ pc[p] = "calling"
                       /\ \/ pc'[p] = "recording" /\ task'[p].after = "final"
                          \/ pc'[p] = "done" /\ task'[p].result \in {"ok", "http500"}
                    \/ pc'[p] = "done" /\ task'[p].result \in Raised]_vars

\* a call is at its fourth provider call, after a quota error, a transient error
\* with its backoff sleep and another quota error
C17_Witness ==
    \E p \in Procs :
        /\ InApiCall(p) /\ pc[p] = "calling"
        /\ task[p].attempt = MAX_RETRIES - 1
        /\ hist[p] = [invokes |-> 4, sleeps |-> 1, failures |-> 3, transient |-> 1]

\* the tracker's three operations on model m give the same result and leave
\* the same state of m whether S or R is the tracker's state, and leave
\* every other model's state as it is
SameOnModel(S, R, m, est, tokens) ==
    LET g1 == GetWaitTime(S, limits, m, now, est)
        g2 == GetWaitTime(R, limits, m, now, est)
        w1 == WaitForRequestPass(S, limits, m, now, est)
        w2 == WaitForRequestPass(R, limits, m, now, est)
        r1 == RecordUsagePass(S, limits, m, now, tokens)
        r2 == RecordUsagePass(R, limits, m, now, tokens)
    IN /\ g1.w = g2.w /\ g1.S[m] = g2.S[m]
       /\ w1.admitted = w2.admitted /\ w1.sleep = w2.sleep /\ w1.S[m] = w2.S[m]
       /\ r1.recorded = r2.recorded /\ r1.sleep = r2.sleep /\ r1.S[m] = r2.S[m]
       /\ \A k \in Models \ {m} :
             /\ g1.S[k] = S[k] /\ w1.S[k] = S[k] /\ r1.S[k] = S[k]

\* the tasks whose own state a step changes
Movers == {p \in Procs : <<pc[p], task[p], held[p]>>' # <<pc[p], task[p], held[p]>>}

\* C18: what get_wait_time, wait_for_request and record_usage do on a model
\* (wait returned, admitted or time to sleep, recorded or time to sleep, new
\* state of the model) does not depend on any other model's state, however
\* exhausted that one is and whoever is suspended on it, and does not touch
\* it; the model's lock is free whenever a task gets to it, whoever sleeps
\* or waits on any model; and a step that changes a model's state is the
\* step of exactly one task, taken with that model's lock free, on the model
\* the task is calling.
C18_ModelsIndependent ==
    /\ [](\A m \in Models, m2 \in Models, e \in EstChoices, k \in {0} \cup TokChoices :
            m # m2 =>
              /\ SameOnModel(st, [st EXCEPT ![m2] = NoState], m, e, k)
              /\ lock[m] = NoProc)
    /\ [][\A m \in Models :
            st'[m] # st[m] =>
              /\ lock[m] = NoProc
              /\ Cardinality(Movers) = 1
              /\ \A p \in Movers :
                    /\ task'[p].cur = m \/ task[p].cur = m
                    /\ \A m2 \in Models \ {m} : st'[m2] = st[m2]]_vars

\* one model's request quota is used up and a task sleeps in wait_for_request
\* on it, while a task that asked for the other model at the same time has been
\* admitted at once
C18_Witness ==
    \E p, q \in Procs, m, m2 \in Models :
        /\ m # m2 /\ p # q
        /\ pc[q] = "reserving" /\ task[q].cur = m2 /\ task[q].wakeAt > now
        /\ GetWaitTime(st, limits, m2, now, 0).w > 0
        /\ pc[p] = "calling" /\ task[p].cur = m
        /\ limits[m].present /\ limits[m].rpm # 0
        /\ admLog[m] # <<>> /\ admLog[m][Len(admLog[m])] = now
        /\ admLog[m2] # <<>> /\ admLog[m2][Len(admLog[m2])] = now

\* p sleeps on model m: in wait_for_request, in record_usage, or in the
\* orchestrator's backoff after a failed attempt on m
SuspendedOn(p, m) ==
    /\ pc[p] \in {"reserving", "recording", "backoff"}
    /\ task[p].cur = m

\* p's provider call on model m is under way
InFlightOn(p, m) == pc[p] = "calling" /\ task[p].cur = m

TwoInFlight ==
    \E p, q \in Procs, m \in Models :
        /\ p # q /\ limits[m].present
        /\ InFlightOn(p, m) /\ InFlightOn(q, m)
        /\ held[p] # <<>> /\ held[q] # <<>>

\* m has no configured limits: no entry in the limits map, or every ceiling 0
NoLimits(m) ==
    \/ ~limits[m].present
    \/ limits[m].rpm = 0 /\ limits[m].tpm = 0 /\ limits[m].rpd = 0

\* estimates and token amounts, small and huge
TokenAmounts == {0, 1, 3, 1000000}

\* C20: on a model without limits, whatever has been requested and recorded
\* on it so far, get_wait_time returns 0 for any estimate, a pass of
\* wait_for_request admits and a pass of record_usage records for any
\* amount, so that no task is ever asleep in either of them; and for a model
\* without an entry in the limits map the three operations leave the
\* tracker's state as it is, the model having no state at any time.
C20_NoLimitsNeverWait ==
    \A m \in Models :
        NoLimits(m) =>
          /\ \A x \in TokenAmounts :
                /\ GetWaitTime(st, limits, m, now, x).w = 0
                /\ WaitForRequestPass(st, limits, m, now, x).admitted
                /\ RecordUsagePass(st, limits, m, now, x).recorded
                /\ ~limits[m].present =>
                      /\ GetWaitTime(st, limits, m, now, x).S = st
                      /\ WaitForRequestPass(st, limits, m, now, x).S = st
                      /\ RecordUsagePass(st, limits, m, now, x).S = st
          /\ \A p \in Procs :
                (task[p].kind # "none" /\ task[p].cur = m)
                => pc[p] \notin {"reserving", "recording"}
          /\ ~limits[m].present =>
                /\ st[m] = NoState
                /\ admLog[m] = <<>> /\ commitLog[m] = <<>> /\ outstanding[m] = 0

\* the third request is in flight, on a model without an entry in the limits
\* map, after two requests at the same time on a model whose ceilings are all
\* 0, one of them with its tokens recorded
C20_Witness ==
    \E p \in Procs, m, m2 \in Models :
        /\ ~limits[m].present /\ limits[m2].present /\ NoLimits(m2)
        /\ pc[p] = "calling" /\ task[p].cur = m /\ task[p].est = 3
        /\ st[m] = NoState
        /\ Len(st[m2].minute_requests) = 2
        /\ st[m2].token_sum = 3
        /\ calls = MaxDirectCalls

\* the lower-cased text holds marker somewhere
Holds(text, marker) ==
    \E i \in 1..Len(text) :
        /\ i + Len(marker) - 1 <= Len(text)
        /\ SubSeq(Lower(text), i, i + Len(marker) - 1) = marker

Marked(text) ==
    \E marker \in {"503", "overloaded", "unavailable", "try again later"} :
        Holds(text, marker)

\* C21: an error is taken for a transient one exactly if its lower-cased text
\* holds "503", "overloaded", "unavailable" or "try again later"; the errors
\* of the tests are classified as the tests say; and what the except block
\* does with an error that is no quota error follows from this alone and the
\* attempt (sleep and retry, 503 after the last attempt, or the error raised
\* at once), while a quota error is never classified by its text.
C21_Classification ==
    /\ \A text \in ErrorTexts : IsRetryableError(text) <=> Marked(text)
    /\ \A text \in RetryableTexts : IsRetryableError(text)
    /\ \A text \in NonRetryableTexts : ~IsRetryableError(text)
    /\ errCase.decided # "none" =>
         /\ errCase.quota = "none" =>
               /\ errCase.decided \in {"sleep", "http503", "exc"}
               /\ errCase.decided = "exc" <=> ~Marked(errCase.text)
               /\ errCase.decided = "sleep" <=>
                     (Marked(errCase.text) /\ errCase.attempt < MAX_RETRIES - 1)
         /\ errCase.quota = "quota" =>
               errCase.decided = IF errCase.attempt < MAX_RETRIES - 1
                                 THEN "next_attempt" ELSE "http429"

\* an upper-case UNAVAILABLE, no quota error, on the second attempt: the
\* call sleeps and retries
C21_Witness ==
    /\ errCase.text = "UNAVAILABLE: Service temporarily unavailable"
    /\ errCase.quota = "none"
    /\ errCase.attempt = 1
    /\ errCase.decided = "sleep"

\* q without its first entry equal to e (q itself if it has none)
RECURSIVE RemoveOne(_, _)
RemoveOne(q, e) ==
    IF q = <<>> THEN <<>>
    ELSE IF Head(q) = e THEN Tail(q)
    ELSE <<Head(q)>> \o RemoveOne(Tail(q), e)

\* C22: record_usage(m, 0) by a caller whose admitted reservation on m was e
\* tokens takes exactly e off pending_token_sum and exactly one entry e off
\* placeholder_tokens (none for e = 0, which left no entry), and leaves
\* token_events, token_sum and the request windows as they are, pruning
\* aside, whatever other reservations are outstanding on m.
C22_ReleaseRemovesOwn ==
    [][\A p \in Procs :
          (DirectRecord(p, 0) /\ held[p] # <<>> /\ limits[task[p].cur].present)
          => LET m == task[p].cur
                 e == held[p][Len(held[p])][2]
                 s == PruneTokens(GetState(st[m]), now)
             IN /\ st'[m].pending_token_sum = s.pending_token_sum - e
                /\ st'[m].placeholder_tokens =
                      IF e = 0 THEN s.placeholder_tokens
                      ELSE RemoveOne(s.placeholder_tokens, e)
                /\ st'[m].token_events = s.token_events
                /\ st'[m].token_sum = s.token_sum
                /\ st'[m].minute_requests = s.minute_requests
                /\ st'[m].day_requests = s.day_requests]_vars

\* C23: a pass of record_usage(m, a) that goes to sleep, token_sum + a being
\* over the token ceiling, leaves the state of m as it was, pruning aside
\* (the reservation it popped is at the front again and counted); the pass
\* that completes after such a sleep has removed exactly one pending
\* reservation and appended exactly the event (now, a).
C23_SuspendedRecordKeepsReservation ==
    [][\A p \in Procs :
          LET m == task[p].cur
              s == PruneTokens(GetState(st[m]), now)
          IN /\ (pc[p] \in {"calling", "recording"} /\ pc'[p] = "recording"
                   /\ task'[p] # task[p])
                => /\ st'[m] = s
                   /\ limits[m].tpm # 0
                   /\ s.token_sum + task'[p].tokens > limits[m].tpm
             /\ (pc[p] = "recording" /\ pc'[p] = "done")
                => /\ Len(st'[m].placeholder_tokens) = Len(s.placeholder_tokens) - 1
                   /\ st'[m].token_events =
                         Append(s.token_events, <<now, task[p].tokens>>)
                   /\ st'[m].token_sum = s.token_sum + task[p].tokens]_vars

\* the state s of a model as an operation at time t finds it after pruning
Norm(s, t) == PruneTokens(PruneRequests(GetState(s), t), t)

\* q2 is q without some of its first entries, all of them stamped (by stamp)
\* at least a window before t
OnlyExpiredGone(q, q2, t, window, stamp(_)) ==
    \E k \in 0..Len(q) :
        /\ q2 = SubSeq(q, k + 1, Len(q))
        /\ \A i \in 1..k : t - stamp(q[i]) >= window

RequestStamp(x) == x

EventStamp(x) == x[1]

\* how much later the next operation comes
LaterChoices == {0, 60000}

\* C24: get_wait_time(m, x), whatever the estimate x, adds no request timestamp, token event or
\* pending reservation; what it removes from the request windows and the
\* token events has left its window, token_sum going down by what the
\* removed events counted; it leaves the other models alone; and whatever
\* comes next on m, at once or later (get_wait_time, a pass of
\* wait_for_request, a pass of record_usage), returns the same and leaves
\* the same state, pruning aside, as it would without the call.
C24_WaitTimeReadOnly ==
    \A m \in Models :
        LET g == GetWaitTime(st, limits, m, now, 0)
            s0 == GetState(st[m])
            s1 == g.S[m]
        IN limits[m].present =>
           /\ s1.placeholder_tokens = s0.placeholder_tokens
           /\ s1.pending_token_sum = s0.pending_token_sum
           /\ OnlyExpiredGone(s0.minute_requests, s1.minute_requests, now,
                              TOKEN_WINDOW_SECONDS, RequestStamp)
           /\ OnlyExpiredGone(s0.day_requests, s1.day_requests, now,
                              DAY_WINDOW_SECONDS, RequestStamp)
           /\ OnlyExpiredGone(s0.token_events, s1.token_events, now,
                              TOKEN_WINDOW_SECONDS, EventStamp)
           /\ s1.token_sum + SumCounts(s0.token_events)
                 = s0.token_sum + SumCounts(s1.token_events)
           /\ \A k \in Models \ {m} : g.S[k] = st[k]
           /\ \A x \in EstChoices : GetWaitTime(st, limits, m, now, x).S = g.S
           /\ \A d \in LaterChoices, y \in EstChoices :
                 LET t2 == now + d
                     g1 == GetWaitTime(g.S, limits, m, t2, y)
                     g2 == GetWaitTime(st, limits, m, t2, y)
                     w1 == WaitForRequestPass(g.S, limits, m, t2, y)
                     w2 == WaitForRequestPass(st, limits, m, t2, y)
                 IN /\ g1.w = g2.w
                    /\ Norm(g1.S[m], t2) = Norm(g2.S[m], t2)
                    /\ w1.admitted = w2.admitted /\ w1.sleep = w2.sleep
                    /\ Norm(w1.S[m], t2) = Norm(w2.S[m], t2)
           /\ \A d \in LaterChoices, a \in {0} \cup TokChoices :
                 LET t2 == now + d
                     r1 == RecordUsagePass(g.S, limits, m, t2, a)
                     r2 == RecordUsagePass(st, limits, m, t2, a)
                 IN /\ r1.recorded = r2.recorded /\ r1.sleep = r2.sleep
                    /\ Norm(r1.S[m], t2) = Norm(r2.S[m], t2)

\* get_wait_time has been called on a model nobody has reserved on (its state
\* exists and is empty) while a call on the other model is in flight, and on
\* that one it has pruned a request from the minute window
C24_Witness ==
    \E m, m2 \in Models, p \in Procs :
        /\ m # m2 /\ limits[m].present /\ limits[m2].present
        /\ st[m] = EmptyState /\ admLog[m] = <<>>
        /\ pc[p] = "calling" /\ task[p].cur = m2
        /\ Len(st[m2].minute_requests) < Len(st[m2].day_requests)

\* _prune_tokens without the max(0, ...)
RECURSIVE PruneTokensUnclamped(_, _)
PruneTokensUnclamped(s, t) ==
    IF s.token_events # <<>> /\ t - Head(s.token_events)[1] >= TOKEN_WINDOW_SECONDS
    THEN PruneTokensUnclamped([s EXCEPT !.token_events = Tail(@),
                                        !.token_sum = @ - Head(s.token_events)[2]], t)
    ELSE s

\* C25: for every model, token_sum is the sum of the counts in token_events
\* and pending_token_sum the sum of placeholder_tokens, both at least 0;
\* pruning now or later takes from token_sum exactly the counts of the events
\* it removes, and neither there nor where a placeholder is popped does the
\* max(0, ...) change the value.
C25_CachedSumsExact ==
    \A m \in Models :
        LET s == st[m]
        IN /\ s.token_sum = SumCounts(s.token_events)
           /\ s.pending_token_sum = SumSeq(s.placeholder_tokens)
           /\ s.token_sum >= 0 /\ s.pending_token_sum >= 0
           /\ \A i \in DOMAIN s.token_events : s.token_events[i][2] > 0
           /\ \A i \in DOMAIN s.placeholder_tokens : s.placeholder_tokens[i] > 0
           /\ \A d \in {0} \cup TickSteps \cup LaterChoices :
                 LET s2 == PruneTokens(s, now + d)
                 IN /\ s2 = PruneTokensUnclamped(s, now + d)
                    /\ s2.token_sum = SumCounts(s2.token_events)
                    /\ s.token_sum - s2.token_sum
                          = SumCounts(s.token_events) - SumCounts(s2.token_events)
           /\ s.placeholder_tokens # <<>> =>
                 /\ PopPlaceholder(s).pending_token_sum
                       = s.pending_token_sum - Head(s.placeholder_tokens)
                 /\ PopPlaceholder(s).pending_token_sum
                       = SumSeq(PopPlaceholder(s).placeholder_tokens)

\* two token events, the older one out of the window and the other one in
\* it: the next pruning removes exactly the older one and its count
C25_Witness ==
    \E m \in Models :
        /\ Len(st[m].token_events) = 2
        /\ now - st[m].token_events[1][1] >= TOKEN_WINDOW_SECONDS
        /\ now - st[m].token_events[2][1] < TOKEN_WINDOW_SECONDS
        /\ PruneTokens(st[m], now).token_events = Tail(st[m].token_events)
        /\ PruneTokens(st[m], now).token_sum = st[m].token_events[2][2]

\* on model m the request windows have room, no committed token event is
\* left in the window and no reservation is pending
TokensAgedOut(m) ==
    LET s == Norm(st[m], now)
    IN /\ limits[m].tpm # 0
       /\ RequestWait(s, now, limits[m]) = 0
       /\ s.token_events = <<>>
       /\ s.pending_token_sum = 0

\* C26: a caller asleep in wait_for_request(m, e) whose sleep is over and who
\* finds, on its recheck, the request windows with room, every committed
\* token event aged out and no reservation pending, is admitted, whatever
\* the estimate e.
C26_TokenWaitEnds ==
    [][\A p \in Procs :
          (ReserveRecheck(p) /\ TokensAgedOut(task[p].cur))
          => pc'[p] = "calling"]_vars

\* C27: a caller asleep in record_usage(m, a) whose sleep is over and who
\* finds, on its recheck, that every earlier token event has aged out of
\* the window, completes, whatever the amount a and whoever else is waiting
\* to commit on m.
C27_RecordCompletes ==
    [][\A p \in Procs :
          (RecordRecheck(p, 0)
             /\ PruneTokens(GetState(st[task[p].cur]), now).token_events = <<>>)
          => pc'[p] = "done"]_vars

\* C28: on a model with a token ceiling T > 0 the committed sum never
\* exceeds T, and record_usage(m, 0) completes on its first pass in every
\* reachable state.
C28_CommittedWithinCeiling ==
    \A m \in Models :
        (limits[m].present /\ limits[m].tpm # 0)
        => /\ st[m].token_sum <= limits[m].tpm
           /\ RecordUsagePass(st, limits, m, now, 0).recorded

\* a commit is asleep because it does not fit next to the committed tokens,
\* and a release on the same model has completed
C28_Witness ==
    \E p \in Procs, q \in Procs, m \in Models :
        /\ limits[m].tpm # 0
        /\ st[m].token_sum > 0
        /\ pc[p] = "recording" /\ task[p].cur = m /\ task[p].tokens > 0
        /\ pc[q] = "done" /\ task[q].cur = m /\ task[q].tokens = 0
        /\ task[q].kind = "direct"

\* p's wait_for_request returns in this step: the provider call of a new
\* attempt is next
AttemptAdmitted(p) ==
    /\ pc'[p] = "calling"
    /\ \/ pc[p] # "calling"
       \/ task'[p].attempt # task[p].attempt
       \/ task'[p].round # task[p].round

\* the request windows of s, without what has left them at t
MinuteWindow(s, t) == PruneRequests(GetState(s), t).minute_requests

DayWindow(s, t) == PruneRequests(GetState(s), t).day_requests

\* what a step adds to the windows of m: one timestamp if an attempt on m
\* was admitted in it and tracked is true of m
SlotTaken(m, tracked(_)) ==
    IF tracked(m) /\ \E p \in Procs : AttemptAdmitted(p) /\ task'[p].cur = m
    THEN <<now>> ELSE <<>>

\* every step leaves in the windows of every model what they held plus what
\* SlotTaken says, and an admitted attempt of _make_api_call_with_retry is
\* the call's attempt number k <= MAX_RETRIES, counted from 1
SlotsFollowAttempts(tracked(_)) ==
    /\ \A m \in Models :
          /\ MinuteWindow(st'[m], now) = MinuteWindow(st[m], now) \o SlotTaken(m, tracked)
          /\ DayWindow(st'[m], now) = DayWindow(st[m], now) \o SlotTaken(m, tracked)
    /\ \A p \in Procs :
          (AttemptAdmitted(p) /\ task'[p].kind = "generate")
          => /\ hist'[p].invokes = task'[p].attempt + 1
             /\ hist'[p].invokes <= MAX_RETRIES

HasLimits(m) == limits[m].present

AnyModel(m) == TRUE

\* C29 (as stated): every admitted attempt adds exactly one timestamp to the
\* minute window and one to the day window of the model it selected, no
\* other step (a suspended wait_for_request, a release, a commit, a
\* get_wait_time) adds or removes a timestamp that is still inside its
\* window, and the k-th attempt of a call is its k-th slot, k <= 4.
C29_OneSlotPerAttempt == [][SlotsFollowAttempts(AnyModel)]_vars

\* C29 (amended): the same for the models the limits map holds; an attempt
\* on a model without limits adds nothing.
C29_OneSlotPerTrackedAttempt == [][SlotsFollowAttempts(HasLimits)]_vars

\* a call is in its fourth attempt, its four timestamps are in the minute
\* windows of the two models, and the other task is suspended in
\* wait_for_request, having added none
C29_Witness ==
    \E p \in ChatProcs, q \in MemoryProcs :
        /\ pc[p] = "calling" /\ hist[p].invokes = MAX_RETRIES
        /\ pc[q] = "reserving" /\ task[q].wakeAt > now
        /\ Len(st[MODEL_NAME].minute_requests)
             + Len(st[ALT_MODEL_NAME].minute_requests) = MAX_RETRIES

\* the provider call of p's attempt raises in this step
ProviderFailed(p) == hist'[p].failures = hist[p].failures + 1

\* it raises a transient error and attempts remain
TransientWithAttemptsLeft(p) ==
    /\ ProviderFailed(p)
    /\ hist'[p].transient = hist[p].transient + 1
    /\ task[p].attempt < MAX_RETRIES - 1

\* C30: the orchestrator begins a backoff sleep only in the step in which
\* a provider call fails with a transient error and attempts remain, and it
\* does sleep then; any other failure either ends the call or, being a
\* quota failure with attempts remaining, goes straight to the
\* wait_for_request of the next attempt: no sleep follows a quota failure,
\* a non-retryable failure or the failure of the last attempt.
C30_BackoffOnlyAfterTransient ==
    [][\A p \in Procs :
          /\ (pc'[p] = "backoff" /\ pc[p] # "backoff")
             => TransientWithAttemptsLeft(p)
          /\ (hist'[p].sleeps # hist[p].sleeps)
             => \/ TransientWithAttemptsLeft(p) /\ hist'[p].sleeps = hist[p].sleeps + 1
                \/ hist'[p].sleeps = 0
          /\ TransientWithAttemptsLeft(p)
             => /\ pc'[p] = "backoff"
                /\ task'[p].wakeAt > now
                /\ task'[p].attempt = task[p].attempt
          /\ (ProviderFailed(p) /\ ~TransientWithAttemptsLeft(p))
             => /\ pc'[p] # "backoff"
                /\ hist'[p].sleeps = hist[p].sleeps
                /\ pc'[p] # "done"
                   => \* the call goes on: a quota failure, attempts remain
                      /\ task'[p].last_error = "http429"
                      /\ task[p].attempt < MAX_RETRIES - 1
                      /\ task'[p].attempt = task[p].attempt + 1
                      /\ pc'[p] \in {"calling", "reserving"}]_vars

\* a call whose first attempt failed with a quota error and went on without
\* a sleep, and whose second failed with a transient error: it is asleep now
C30_Witness ==
    \E p \in Procs :
        /\ pc[p] = "backoff" /\ task[p].wakeAt > now
        /\ task[p].attempt = 1
        /\ hist[p] = [invokes |-> 2, sleeps |-> 1, failures |-> 2, transient |-> 1]

====
